---- MODULE Spec2Model ----
(***************************************************************************)
(* Model of src/src/App.js: the App shell (auth gateway subscription and   *)
(* screen selection), the LoginPage, and the Dashboard with its list       *)
(* fetch effect, handleAction dispatcher and modal state.                  *)
(*                                                                         *)
(* React state setters are modelled as assignments to the state variable.  *)
(* The one place where React's scheduling is observable is the Dashboard's *)
(* useEffect with dependency `refresh`: the effect re-runs only when the   *)
(* value of `refresh` committed by a render differs from the value the     *)
(* effect last ran with.  The variable depsRefresh holds that last value   *)
(* and RunEffect is the effect re-running; updates that land between two   *)
(* renders are batched, so RunEffect may come any time after an update.    *)
(***************************************************************************)
EXTENDS Integers, Sequences, FiniteSets, TLC

\* ------------------------------------------------------------------ bounds
\* list fetches issued in one run (mount fetches and refetches)
MaxFetches == 3
\* handleAction invocations in one run
MaxActions == 2

\* ------------------------------------------------------------- JS values
NULL == "null"

\* a JS array value and the JS value `undefined`, as a tagged value
Arr(s) == [t |-> "array", v |-> s]
Undefined == [t |-> "undefined", v |-> <<>>]

\* a JS number and a JS string, both written as their characters
Num(cs) == [t |-> "number", v |-> cs]
Str(cs) == [t |-> "string", v |-> cs]

\* ----------------------------------------------------------- characters
Upper == <<"A", "B", "C", "K", "X">>
Lower == <<"a", "b", "c", "k", "x">>

\* String.prototype.toLowerCase on one character
LowerChar(c) ==
  IF \E i \in 1..Len(Upper) : Upper[i] = c
    THEN Lower[CHOOSE i \in 1..Len(Upper) : Upper[i] = c]
    ELSE c

\* String.prototype.toLowerCase
toLowerCase(s) == [i \in 1..Len(s) |-> LowerChar(s[i])]

\* String.prototype.includes: t occurs in s as a contiguous substring
includes(s, t) ==
  \E i \in 0..(Len(s) - Len(t)) : \A j \in 1..Len(t) : s[i + j] = t[j]

\* ------------------------------------------------------------- licenses
\* hwid <<>> is an absent (or empty, equally falsy) hwid
KeyA == <<"K", "a">>
Active == <<"a", "c", "t", "i", "v", "e">>

LicA1 == [id |-> KeyA, status |-> Active, hwid |-> <<>>]

\* the `licenses` arrays the backend may answer GET /licenses with
LicenseLists == {<<>>, <<LicA1>>}

\* what the search box may hold: nothing, or a term no field of LicA1 has
SearchTerms == {<<>>, <<"X">>}

\* ------------------------------------------------------------ responses
\* A response body: not JSON at all, the JSON value null, or a JSON object
\* that may carry a `licenses` array and a `message` string ("" = absent).
Body(shape, hasLicenses, lics, message) ==
  [shape |-> shape, hasLicenses |-> hasLicenses, licenses |-> lics,
   message |-> message]
NotJson == Body("notJson", FALSE, <<>>, "")
JsonNull == Body("null", FALSE, <<>>, "")
EmptyObject == Body("object", FALSE, <<>>, "")

\* net: "reject" (fetch rejects), "ok" (response.ok), "error" (non-2xx)
Response(net, body) == [net |-> net, body |-> body]

ListResponses ==
  {Response("reject", EmptyObject), Response("error", EmptyObject)}
    \cup {Response("ok", b) : b \in {NotJson, JsonNull, EmptyObject}}
    \cup {Response("ok", Body("object", TRUE, l, "")) : l \in LicenseLists}

ActionResponses ==
  {Response("reject", EmptyObject), Response("ok", EmptyObject)}
    \cup {Response("error", b) :
            b \in {NotJson, JsonNull, EmptyObject,
                   Body("object", FALSE, <<>>, "quota exceeded")}}

SignInResponses == {"ok", "auth/wrong-password"}
SignOutResponses == {"ok", "auth/network-request-failed"}

\* messages of the errors the platform throws
MsgFailedToFetch == "Failed to fetch"
MsgSyntaxError == "Unexpected token < in JSON at position 0"
MsgTypeError == "Cannot read properties of null"

Actions == {"create", "delete", "reset-hwid", "toggle-status"}

\* `Failed to perform action: ${action}`
FallbackMessage(action) ==
  CASE action = "create" -> "Failed to perform action: create"
    [] action = "delete" -> "Failed to perform action: delete"
    [] action = "reset-hwid" -> "Failed to perform action: reset-hwid"
    [] action = "toggle-status" -> "Failed to perform action: toggle-status"

\* ------------------------------------------------- where a handler throws
\* A handler run either completes or throws at one site; the throw is
\* caught when the site lies inside the handler's try block.
NoThrow == [site |-> "none", message |-> ""]
Throw(site, message) == [site |-> site, message |-> message]

\* fetchLicenses: the statement that throws for a response, if any
fetchLicensesThrow(resp) ==
  IF resp.net = "reject" THEN Throw("fetch", MsgFailedToFetch)
  ELSE IF resp.net # "ok" THEN Throw("throw", "Failed to fetch licenses")
  ELSE IF resp.body.shape = "notJson" THEN Throw("json", MsgSyntaxError)
  ELSE IF resp.body.shape = "null" THEN Throw("data.licenses", MsgTypeError)
  ELSE NoThrow

\* the statements of fetchLicenses inside its try block
fetchLicensesTry == {"fetch", "throw", "json", "data.licenses"}

\* data.licenses of a parsed body
dataLicenses(body) ==
  IF body.hasLicenses THEN Arr(body.licenses) ELSE Undefined

\* handleAction without its `if (!response.ok)` check
handleActionThrow_NoOkCheck(action, resp) ==
  IF resp.net = "reject" THEN Throw("fetch", MsgFailedToFetch) ELSE NoThrow

\* handleAction: the statement that throws for a response, if any
handleActionThrow(action, resp) ==
  IF resp.net = "reject" THEN Throw("fetch", MsgFailedToFetch)
  ELSE IF resp.net = "ok" THEN NoThrow
  ELSE IF resp.body.shape = "notJson" THEN Throw("json", MsgSyntaxError)
  ELSE IF resp.body.shape = "null"
    THEN Throw("errorData.message", MsgTypeError)
  ELSE Throw("throw", IF resp.body.message # "" THEN resp.body.message
                      ELSE FallbackMessage(action))

\* handleAction with the error body parsed after the try block
handleActionTry_JsonOutside == {"fetch", "throw"}

\* the statements of handleAction inside its try block
handleActionTry == {"fetch", "json", "errorData.message", "throw"}

\* handleLogin / handleLogout: the awaited gateway call rejects or not
handleLoginThrow(resp) ==
  IF resp = "ok" THEN NoThrow ELSE Throw("signIn", resp)
handleLoginTry == {"signIn"}

handleLogoutThrow(resp) ==
  IF resp = "ok" THEN NoThrow ELSE Throw("signOut", resp)
handleLogoutTry == {"signOut"}

\* a throw outside the try block leaves the handler uncaught
Escapes(thrown, tryBlock) ==
  thrown.site # "none" /\ thrown.site \notin tryBlock
Caught(thrown, tryBlock) ==
  thrown.site # "none" /\ thrown.site \in tryBlock

\* ---------------------------------------------------------------- state
VARIABLES
  \* App (lines 23-28); appPhase is the mount effect's position
  user, loading, isAuthReady, authError, appPhase,
  \* gateway calls awaiting their result
  signInPending, signOutPending,
  \* LoginPage.error (line 115)
  loginError,
  \* Dashboard (lines 168-175)
  licenses, dLoading, error, showModal, modalType, modalData, refresh,
  searchTerm,
  \* the value of `refresh` the list effect last ran with (line 194)
  depsRefresh,
  \* CreateKeyModal.days (line 403)
  days,
  \* GET /licenses requests awaiting a response, by issue number
  listInFlight, nFetches,
  \* handleAction requests awaiting a response
  actInFlight, nActions,
  \* the tree was unmounted by an error thrown while rendering / in an effect
  crashed,
  \* an exception left an async handler uncaught
  uncaught,
  \* history: issue number and data of the latest-issued fetch that succeeded
  latestOkSeq, latestOkData,
  \* history: an action failed and handleAction was not invoked since
  failedSinceInvoke,
  \* the clock read by `new Date()` (line 273), in milliseconds; only
  \* getDuration reads it, and no handler does
  now

appVars == <<user, loading, isAuthReady, authError, appPhase>>
gatewayVars == <<signInPending, signOutPending>>
dashVars == <<licenses, dLoading, error, showModal, modalType, modalData,
              refresh, searchTerm, depsRefresh, days>>
netVars == <<listInFlight, nFetches, actInFlight, nActions>>
histVars == <<latestOkSeq, latestOkData, failedSinceInvoke>>
vars == <<appVars, gatewayVars, loginError, dashVars, netVars, crashed,
          uncaught, histVars, now>>

\* useState(30) of CreateKeyModal
InitialDays == Num(<<"3", "0">>)

\* what the Days Valid field may be edited to (e.target.value is a string)
DaysTexts == {<<"7">>, <<"0">>}

Init ==
  /\ user = NULL /\ loading = TRUE /\ isAuthReady = FALSE
  /\ authError = NULL /\ appPhase = "constructed"
  /\ signInPending = FALSE /\ signOutPending = FALSE
  /\ loginError = NULL
  /\ licenses = Arr(<<>>) /\ dLoading = TRUE /\ error = NULL
  /\ showModal = FALSE /\ modalType = NULL /\ modalData = <<>>
  /\ refresh = FALSE /\ searchTerm = <<>> /\ depsRefresh = FALSE
  /\ days = InitialDays
  /\ listInFlight = {} /\ nFetches = 0
  /\ actInFlight = {} /\ nActions = 0
  /\ crashed = FALSE /\ uncaught = FALSE
  /\ latestOkSeq = 0 /\ latestOkData = Arr(<<>>)
  /\ failedSinceInvoke = FALSE
  /\ now = 0

\* ------------------------------------------------------------ App render
\* App's render without the `user ?` test
AppRender_NoUserCheck ==
  IF loading THEN "Loading"
  ELSE IF authError # NULL THEN "ConfigError"
  ELSE "Dashboard"

\* which screen App's render returns (lines 83-109)
AppRender ==
  IF loading THEN "Loading"
  ELSE IF authError # NULL THEN "ConfigError"
  ELSE IF user # NULL THEN "Dashboard"
  ELSE "Login"

\* a Dashboard instance is mounted
DashboardMounted == ~crashed /\ AppRender = "Dashboard"

\* the Dashboard shows its main view, not "Loading licenses..." (288-294);
\* with `licenses` undefined the next render throws instead (RenderThrows)
DashboardShown == DashboardMounted /\ ~dLoading /\ licenses.t = "array"

\* the state a fresh Dashboard instance is constructed with, its list
\* effect having run once (lines 168-194)
MountDashboard ==
  /\ nFetches < MaxFetches
  /\ licenses' = Arr(<<>>) /\ dLoading' = TRUE /\ error' = NULL
  /\ showModal' = FALSE /\ modalType' = NULL /\ modalData' = <<>>
  /\ refresh' = FALSE /\ searchTerm' = <<>> /\ depsRefresh' = FALSE
  /\ days' = InitialDays
  /\ nFetches' = nFetches + 1
  /\ listInFlight' = {nFetches + 1}
  /\ actInFlight' = {}
  /\ UNCHANGED nActions
  /\ latestOkSeq' = 0 /\ latestOkData' = Arr(<<>>)
  /\ failedSinceInvoke' = FALSE

\* The Dashboard instance is dropped.  Continuations of its requests still
\* run, but their setState calls reach an unmounted instance and do nothing,
\* so the requests are forgotten here.
UnmountDashboard ==
  /\ licenses' = Arr(<<>>) /\ dLoading' = TRUE /\ error' = NULL
  /\ showModal' = FALSE /\ modalType' = NULL /\ modalData' = <<>>
  /\ refresh' = FALSE /\ searchTerm' = <<>> /\ depsRefresh' = FALSE
  /\ days' = InitialDays
  /\ listInFlight' = {} /\ actInFlight' = {}
  /\ UNCHANGED <<nFetches, nActions>>
  /\ latestOkSeq' = 0 /\ latestOkData' = Arr(<<>>)
  /\ failedSinceInvoke' = FALSE

\* the App mount effect with a catch block that leaves `loading` set
AppMount_CatchKeepsLoading(cfg) ==
  /\ UNCHANGED now
  /\ appPhase = "constructed" /\ ~crashed
  /\ IF cfg = "missing" THEN
       /\ authError' = "Firebase configuration is missing. Please check your environment variables."
       /\ isAuthReady' = TRUE /\ loading' = FALSE
       /\ appPhase' = "failed" /\ UNCHANGED crashed
     ELSE IF cfg = "canvasInvalid" THEN
       /\ crashed' = TRUE /\ appPhase' = "failed"
       /\ UNCHANGED <<authError, isAuthReady, loading>>
     ELSE IF cfg = "initThrows" THEN
       /\ authError' = "Failed to initialize Firebase. Please check your configuration."
       /\ isAuthReady' = TRUE
       /\ appPhase' = "failed" /\ UNCHANGED <<crashed, loading>>
     ELSE
       /\ appPhase' = "subscribed"
       /\ UNCHANGED <<authError, isAuthReady, loading, crashed>>
  /\ UNCHANGED <<user, gatewayVars, loginError, dashVars, netVars, uncaught,
                 histVars>>

\* the App mount effect (lines 30-73); cfg is what the environment holds
ConfigKinds == {"env", "canvas", "canvasInvalid", "missing", "initThrows"}

AppMount(cfg) ==
  /\ UNCHANGED now
  /\ appPhase = "constructed" /\ ~crashed
  /\ IF cfg = "missing" THEN
       /\ authError' = "Firebase configuration is missing. Please check your environment variables."
       /\ isAuthReady' = TRUE /\ loading' = FALSE
       /\ appPhase' = "failed" /\ UNCHANGED crashed
     ELSE IF cfg = "canvasInvalid" THEN
       \* JSON.parse (line 46) throws outside the try block
       /\ crashed' = TRUE /\ appPhase' = "failed"
       /\ UNCHANGED <<authError, isAuthReady, loading>>
     ELSE IF cfg = "initThrows" THEN
       /\ authError' = "Failed to initialize Firebase. Please check your configuration."
       /\ isAuthReady' = TRUE /\ loading' = FALSE
       /\ appPhase' = "failed" /\ UNCHANGED crashed
     ELSE
       /\ appPhase' = "subscribed"
       /\ UNCHANGED <<authError, isAuthReady, loading, crashed>>
  /\ UNCHANGED <<user, gatewayVars, loginError, dashVars, netVars, uncaught,
                 histVars>>

\* the onAuthStateChanged callback (lines 61-65) and the render it causes
onAuthStateChanged(u) ==
  /\ user' = u /\ isAuthReady' = TRUE /\ loading' = FALSE
  /\ UNCHANGED <<authError, appPhase, crashed>>
  /\ IF u # NULL
       THEN IF AppRender = "Dashboard"
              THEN UNCHANGED <<dashVars, netVars, histVars>>
              ELSE MountDashboard
       ELSE UnmountDashboard
  /\ loginError' = IF u = NULL /\ AppRender = "Login" THEN loginError ELSE NULL

\* the gateway's first report after subscribing: the persisted session
GatewayReport(u) ==
  /\ UNCHANGED now
  /\ appPhase = "subscribed" /\ ~crashed /\ ~isAuthReady
  /\ onAuthStateChanged(u)
  /\ UNCHANGED <<gatewayVars, uncaught>>

\* ------------------------------------------------------------ LoginPage
\* handleLogin up to its await (lines 117-121)
HandleLogin ==
  /\ UNCHANGED now
  /\ ~crashed /\ AppRender = "Login" /\ ~signInPending
  /\ loginError' = NULL
  /\ signInPending' = TRUE
  /\ UNCHANGED <<appVars, signOutPending, dashVars, netVars, crashed,
                 uncaught, histVars>>

\* signInWithEmailAndPassword settles; handleLogin resumes (lines 121-124).
\* On success the gateway reports the new user.
SignInSettles(r) ==
  /\ UNCHANGED now
  /\ ~crashed /\ signInPending
  /\ signInPending' = FALSE
  /\ LET thrown == handleLoginThrow(r) IN
       /\ IF thrown.site = "none"
            THEN onAuthStateChanged("admin")
            ELSE /\ loginError' = IF Caught(thrown, handleLoginTry)
                                    THEN thrown.message ELSE loginError
                 /\ UNCHANGED <<appVars, dashVars, netVars, crashed,
                                histVars>>
       /\ uncaught' = (uncaught \/ Escapes(thrown, handleLoginTry))
  /\ UNCHANGED signOutPending

\* ------------------------------------------------------- App.handleLogout
\* handleLogout up to its await (lines 75-77); the Logout button is part of
\* the Dashboard's main view (lines 307-312)
HandleLogout ==
  /\ UNCHANGED now
  /\ DashboardShown /\ ~signOutPending
  /\ signOutPending' = TRUE
  /\ UNCHANGED <<appVars, signInPending, loginError, dashVars, netVars,
                 crashed, uncaught, histVars>>

\* signOut settles; handleLogout resumes (lines 77-80): a rejection is
\* logged with console.error.  On success the gateway reports no user.
SignOutSettles(r) ==
  /\ UNCHANGED now
  /\ ~crashed /\ signOutPending
  /\ signOutPending' = FALSE
  /\ LET thrown == handleLogoutThrow(r) IN
       /\ IF thrown.site = "none"
            THEN onAuthStateChanged(NULL)
            ELSE UNCHANGED <<appVars, loginError, dashVars, netVars, crashed,
                             histVars>>
       /\ uncaught' = (uncaught \/ Escapes(thrown, handleLogoutTry))
  /\ UNCHANGED signInPending

\* the list effect with fetchLicenses raising `loading` again
RunEffect_SetsLoading ==
  /\ UNCHANGED now
  /\ DashboardMounted /\ refresh # depsRefresh
  /\ nFetches < MaxFetches
  /\ depsRefresh' = refresh
  /\ nFetches' = nFetches + 1
  /\ listInFlight' = listInFlight \cup {nFetches + 1}
  /\ dLoading' = TRUE
  /\ UNCHANGED <<appVars, gatewayVars, loginError, licenses, error,
                 showModal, modalType, modalData, refresh, searchTerm, days,
                 actInFlight, nActions, crashed, uncaught, histVars>>

\* ------------------------------------------------------------ Dashboard
\* the list effect re-runs because `refresh` changed (lines 177-194):
\* fetchLicenses up to its await
RunEffect ==
  /\ UNCHANGED now
  /\ DashboardMounted /\ refresh # depsRefresh
  /\ nFetches < MaxFetches
  /\ depsRefresh' = refresh
  /\ nFetches' = nFetches + 1
  /\ listInFlight' = listInFlight \cup {nFetches + 1}
  /\ UNCHANGED <<appVars, gatewayVars, loginError, licenses, dLoading, error,
                 showModal, modalType, modalData, refresh, searchTerm, days,
                 actInFlight, nActions, crashed, uncaught, histVars>>

\* fetchLicenses with a catch block that also empties the list
fetchLicensesResult_ClearOnError(resp, lics) ==
  IF fetchLicensesThrow(resp).site = "none"
    THEN dataLicenses(resp.body)
    ELSE Arr(<<>>)

\* the value of `licenses` after fetchLicenses handled a response
\* (lines 181-187): set from data.licenses unless something threw
fetchLicensesResult(resp, lics) ==
  IF fetchLicensesThrow(resp).site = "none"
    THEN dataLicenses(resp.body)
    ELSE lics

\* the response of fetch number seq arrives; fetchLicenses resumes
\* (lines 180-190)
ListResponse(seq, resp) ==
  /\ UNCHANGED now
  /\ DashboardMounted /\ seq \in listInFlight
  /\ listInFlight' = listInFlight \ {seq}
  /\ LET thrown == fetchLicensesThrow(resp) IN
       /\ licenses' = fetchLicensesResult(resp, licenses)
       /\ error' = IF Caught(thrown, fetchLicensesTry)
                     THEN thrown.message ELSE error
       /\ uncaught' = (uncaught \/ Escapes(thrown, fetchLicensesTry))
       /\ IF thrown.site = "none" /\ seq > latestOkSeq
            THEN latestOkSeq' = seq /\ latestOkData' = dataLicenses(resp.body)
            ELSE UNCHANGED <<latestOkSeq, latestOkData>>
  /\ dLoading' = FALSE
  /\ UNCHANGED <<appVars, gatewayVars, loginError, showModal, modalType,
                 modalData, refresh, searchTerm, depsRefresh, days, nFetches,
                 actInFlight, nActions, crashed, failedSinceInvoke>>

\* the Dashboard renders with `licenses` undefined: licenses.filter
\* (line 282) throws and, with no error boundary, the tree is unmounted
RenderThrows ==
  /\ UNCHANGED now
  /\ DashboardMounted /\ licenses.t # "array"
  /\ crashed' = TRUE
  /\ UNCHANGED <<appVars, gatewayVars, loginError, dashVars, netVars,
                 uncaught, histVars>>

\* the filter predicate comparing against the search term as typed
Matches_TermAsTyped(license, term) ==
  \/ includes(toLowerCase(license.id), term)
  \/ (license.hwid # <<>> /\ includes(toLowerCase(license.hwid), term))
  \/ includes(toLowerCase(license.status), term)

\* filteredLicenses (lines 282-286)
Matches(license, term) ==
  \/ includes(toLowerCase(license.id), toLowerCase(term))
  \/ (license.hwid # <<>>
        /\ includes(toLowerCase(license.hwid), toLowerCase(term)))
  \/ includes(toLowerCase(license.status), toLowerCase(term))

filteredLicenses == SelectSeq(licenses.v, LAMBDA l : Matches(l, searchTerm))

\* the licenses whose card, and so whose buttons, are rendered (333-367)
RenderedLicenses == {filteredLicenses[i] : i \in 1..Len(filteredLicenses)}

\* the search box's onChange (line 327)
SetSearchTerm(t) ==
  /\ UNCHANGED now
  /\ DashboardShown /\ t # searchTerm
  /\ searchTerm' = t
  /\ UNCHANGED <<appVars, gatewayVars, loginError, licenses, dLoading, error,
                 showModal, modalType, modalData, refresh, depsRefresh, days,
                 netVars, crashed, uncaught, histVars>>

\* handleAction sending its request a second time
handleActionRequests_Twice(n, action, key, data) ==
  {[id |-> n, attempt |-> a, action |-> action, key |-> key, body |-> data] :
     a \in {1, 2}}

\* the fetch calls one handleAction invocation makes (lines 219-226):
\* one POST, its body JSON.stringify(data) when data has keys, else null
handleActionRequests(n, action, key, data) ==
  {[id |-> n, attempt |-> 1, action |-> action, key |-> key, body |-> data]}

\* handleAction up to its await (lines 196-226).  key <<>> is null,
\* data <<>> is {} and data <<d>> is {days: d}.  Every caller passes one of
\* the four actions of the switch, so its default branch is never taken.
HandleAction(action, key, data) ==
  /\ UNCHANGED now
  /\ nActions < MaxActions
  /\ error' = NULL
  /\ nActions' = nActions + 1
  /\ actInFlight' =
       actInFlight \cup handleActionRequests(nActions + 1, action, key, data)
  /\ failedSinceInvoke' = FALSE
  /\ UNCHANGED <<appVars, gatewayVars, loginError, licenses, dLoading,
                 showModal, modalType, modalData, refresh, searchTerm,
                 depsRefresh, days, listInFlight, nFetches, crashed, uncaught,
                 latestOkSeq, latestOkData>>

\* CreateKeyModal is mounted (lines 370-374)
CreateModalMounted == showModal /\ modalType = "create"

\* the response to an action request arrives; handleAction resumes
\* (lines 228-236).  Closing the modal unmounts CreateKeyModal, whose `days`
\* is then held at its initial value until the next mount.
ActionResponse(req, resp) ==
  /\ UNCHANGED now
  /\ DashboardMounted /\ req \in actInFlight
  /\ actInFlight' = actInFlight \ {req}
  /\ LET thrown == handleActionThrow(req.action, resp) IN
       /\ IF thrown.site = "none"
            THEN /\ refresh' = ~refresh
                 /\ showModal' = FALSE
                 /\ days' = InitialDays
                 /\ UNCHANGED error
            ELSE /\ error' = IF Caught(thrown, handleActionTry)
                               THEN thrown.message ELSE error
                 /\ UNCHANGED <<refresh, showModal, days>>
       /\ uncaught' = (uncaught \/ Escapes(thrown, handleActionTry))
       /\ failedSinceInvoke' = (failedSinceInvoke \/ thrown.site # "none")
  /\ UNCHANGED <<appVars, gatewayVars, loginError, licenses, dLoading,
                 modalType, modalData, searchTerm, depsRefresh, listInFlight,
                 nFetches, nActions, crashed, latestOkSeq, latestOkData>>

\* openModal (lines 239-243); a CreateKeyModal that was not mounted before
\* starts from useState(30)
openModal(type, data) ==
  /\ UNCHANGED now
  /\ modalType' = type
  /\ modalData' = data
  /\ showModal' = TRUE
  /\ days' = IF CreateModalMounted /\ type = "create" THEN days
             ELSE InitialDays
  /\ UNCHANGED <<appVars, gatewayVars, loginError, licenses, dLoading, error,
                 refresh, searchTerm, depsRefresh, netVars, crashed, uncaught,
                 histVars>>

\* closeModal (lines 245-249), from the modal's close button (388-391)
closeModal ==
  /\ UNCHANGED now
  /\ DashboardShown /\ showModal
  /\ showModal' = FALSE
  /\ modalType' = NULL
  /\ modalData' = <<>>
  /\ days' = InitialDays
  /\ UNCHANGED <<appVars, gatewayVars, loginError, licenses, dLoading, error,
                 refresh, searchTerm, depsRefresh, netVars, crashed, uncaught,
                 histVars>>

\* The buttons of the main view (lines 301-306, 346-365).  The modal overlay
\* does not take them out of the tab order, so they stay reachable while a
\* modal is open.
ClickCreateKey == DashboardShown /\ openModal("create", <<>>)

ClickDelete(license) ==
  /\ DashboardShown /\ license \in RenderedLicenses
  /\ openModal("delete", <<license.id>>)

ClickToggleStatus(license) ==
  /\ DashboardShown /\ license \in RenderedLicenses
  /\ HandleAction("toggle-status", license.id, <<>>)

ClickResetHwid(license) ==
  /\ DashboardShown /\ license \in RenderedLicenses
  /\ HandleAction("reset-hwid", license.id, <<>>)

\* ConfirmDeleteModal's button (lines 375-377, 442-447)
ConfirmDelete ==
  /\ DashboardShown /\ showModal /\ modalType = "delete"
  /\ HandleAction("delete", modalData[1], <<>>)

\* ------------------------------------------------------- CreateKeyModal
Digits == <<"0", "1", "2", "3", "4", "5", "6", "7", "8", "9">>
DigitValue(c) == (CHOOSE i \in 1..Len(Digits) : Digits[i] = c) - 1

RECURSIVE valueAsNumber(_)
valueAsNumber(cs) ==
  IF cs = <<>> THEN 0
  ELSE valueAsNumber(SubSeq(cs, 1, Len(cs) - 1)) * Len(Digits)
         + DigitValue(cs[Len(cs)])

\* the form's native validation of <input type="number" min="1" required>
\* (lines 416-423): submit is blocked unless it passes
NativeValid(cs) == cs # <<>> /\ valueAsNumber(cs) >= 1

\* the Days Valid field's onChange (line 419)
SetDays(text) ==
  /\ UNCHANGED now
  /\ DashboardShown /\ CreateModalMounted
  /\ days # Str(text)
  /\ days' = Str(text)
  /\ UNCHANGED <<appVars, gatewayVars, loginError, licenses, dLoading, error,
                 showModal, modalType, modalData, refresh, searchTerm,
                 depsRefresh, netVars, crashed, uncaught, histVars>>

\* handleSubmit -> onCreate(days) (lines 405-408, 373)
SubmitCreate ==
  /\ DashboardShown /\ CreateModalMounted
  /\ NativeValid(days.v)
  /\ HandleAction("create", <<>>, <<days>>)

\* ------------------------------------------------------- specification
Next ==
  \/ \E cfg \in ConfigKinds : AppMount(cfg)
  \/ \E u \in {NULL, "admin"} : GatewayReport(u)
  \/ HandleLogin
  \/ \E r \in SignInResponses : SignInSettles(r)
  \/ HandleLogout
  \/ \E r \in SignOutResponses : SignOutSettles(r)
  \/ RunEffect
  \/ \E seq \in listInFlight, resp \in ListResponses : ListResponse(seq, resp)
  \/ RenderThrows
  \/ \E t \in SearchTerms : SetSearchTerm(t)
  \/ ClickCreateKey
  \/ \E l \in RenderedLicenses : ClickDelete(l)
  \/ \E l \in RenderedLicenses : ClickToggleStatus(l)
  \/ \E l \in RenderedLicenses : ClickResetHwid(l)
  \/ closeModal
  \/ ConfirmDelete
  \/ \E text \in DaysTexts : SetDays(text)
  \/ SubmitCreate
  \/ \E req \in actInFlight, resp \in ActionResponses : ActionResponse(req, resp)

Spec == Init /\ [][Next]_vars

\* ------------------------------------------------------- kinds of step
\* handleAction resumes with a success response
ActionSucceeds(req) ==
  \E resp \in ActionResponses : resp.net = "ok" /\ ActionResponse(req, resp)

\* handleAction resumes with a non-success HTTP response
ActionGetsHttpError(req, resp) ==
  resp.net = "error" /\ ActionResponse(req, resp)

\* handleAction resumes and ends in its catch block
ActionFails(req) ==
  \E resp \in ActionResponses :
    handleActionThrow(req.action, resp).site # "none"
      /\ ActionResponse(req, resp)

\* fetchLicenses resumes with a response it applies with setLicenses
ListFetchSucceeds ==
  \E seq \in listInFlight, resp \in ListResponses :
    fetchLicensesThrow(resp).site = "none" /\ ListResponse(seq, resp)

\* a list fetch is due: the list effect will re-run after the next render
RefetchDue == refresh # depsRefresh

\* ----------------------------------------------------------------- C1
\* C1: every successful mutating action is followed by a list fetch issued
\* after its success response was observed: once handleAction has handled a
\* success response, a re-run of the list effect is due.
C1_RefetchAfterEverySuccess ==
  [][\A req \in actInFlight : ActionSucceeds(req) => RefetchDue']_vars

\* ----------------------------------------------------------------- C2
\* C2: when no list fetch is in flight, `licenses` is the data of the
\* latest-issued list fetch that succeeded (stated for responses whose
\* `licenses` field is an array, on both sides).
C2_ListIsLatestSuccessfulFetch ==
  (DashboardMounted /\ listInFlight = {} /\ latestOkSeq > 0
     /\ latestOkData.t = "array" /\ licenses.t = "array")
    => licenses = latestOkData

\* ----------------------------------------------------------------- C3
\* C3: at most one mutating action awaits its response at any time.
C3_AtMostOneActionPending == Cardinality(actInFlight) <= 1

\* ----------------------------------------------------------------- C4
\* C4: a non-success HTTP response to a mutating call puts an error string
\* in `error`, leaves the modal's open/closed state, type and data as they
\* were, and triggers no list refetch.
C4_FailureKeepsModalNoRefetch ==
  [][\A req \in actInFlight, resp \in ActionResponses :
       ActionGetsHttpError(req, resp) =>
         /\ error' # NULL
         /\ showModal' = showModal /\ modalType' = modalType
         /\ modalData' = modalData
         /\ refresh' = refresh /\ depsRefresh' = depsRefresh
         /\ nFetches' = nFetches /\ listInFlight' = listInFlight]_vars

\* a failed create was handled and the create modal is still open
C4_Witness ==
  /\ DashboardMounted /\ error = "quota exceeded"
  /\ showModal /\ modalType = "create" /\ actInFlight = {}

\* ----------------------------------------------------------------- C5
\* C5: on success of a create or delete action the modal is closed and the
\* list is refetched (a re-run of the list effect is due).
C5_CreateDeleteSuccessClosesAndRefetches ==
  [][\A req \in actInFlight :
       (req.action \in {"create", "delete"} /\ ActionSucceeds(req)) =>
         (showModal' = FALSE /\ RefetchDue')]_vars

\* ----------------------------------------------------------------- C6
\* C6: for a non-success HTTP response, whatever its body, the string put
\* in `error` is the body's `message` field or the generic fallback
\* `Failed to perform action: <action>`, and nothing else.
C6_ErrorIsMessageOrFallback ==
  [][\A req \in actInFlight, resp \in ActionResponses :
       ActionGetsHttpError(req, resp) =>
         error' \in {FallbackMessage(req.action)}
                      \cup (IF resp.body.shape = "object"
                                 /\ resp.body.message # ""
                              THEN {resp.body.message} ELSE {})]_vars

\* ----------------------------------------------------------------- C7
\* C7: within a Dashboard instance `licenses` changes only when the response
\* of a successful list fetch is applied; invoking an action, its success,
\* its failure, opening or closing a modal and editing the search term leave
\* it unchanged.
C7_LicensesOnlyFromFetch ==
  [][/\ (DashboardMounted /\ DashboardMounted' /\ licenses' # licenses)
          => ListFetchSucceeds
     /\ (nActions' # nActions \/ actInFlight' # actInFlight
           \/ showModal' # showModal \/ modalType' # modalType
           \/ searchTerm' # searchTerm)
          => (DashboardMounted' => licenses' = licenses)]_vars

\* a fetched list is held while an action failed, a modal is open and the
\* search box is filled
C7_Witness ==
  /\ DashboardMounted /\ licenses = Arr(<<LicA1>>)
  /\ failedSinceInvoke /\ showModal /\ searchTerm # <<>>

GatewayReported == appPhase = "subscribed" /\ isAuthReady

\* C10 as stated: the screen App selects is Loading while loading, otherwise
\* Login exactly when user is absent and Dashboard exactly when present.
C10_ScreenByUserAndLoading ==
  AppRender = IF loading THEN "Loading"
              ELSE IF user = NULL THEN "Login" ELSE "Dashboard"

\* C10 amended: App selects Loading until the gateway reports or its
\* initialization fails, the configuration-error screen after a failed
\* initialization, and otherwise Login exactly when user is absent and
\* Dashboard exactly when present; Dashboard is never selected while user is
\* null.
C10_ScreenByAuthState ==
  /\ (GatewayReported => ~loading /\ authError = NULL)
  /\ (GatewayReported =>
        AppRender = IF user = NULL THEN "Login" ELSE "Dashboard")
  /\ (appPhase = "failed" /\ ~crashed =>
        authError # NULL /\ AppRender = "ConfigError")
  /\ (~GatewayReported /\ authError = NULL => AppRender = "Loading")
  /\ (AppRender = "Dashboard" => user # NULL)
  /\ (AppRender = "Login" => user = NULL)

\* the gateway reported a sign-out after a Dashboard had been mounted
C10_Witness == AppRender = "Login" /\ nFetches > 0 /\ ~signOutPending

\* ---------------------------------------------------------------- C11
\* the mount effect ended in one of its two setAuthError branches
InitializationFailed == appPhase = "failed" /\ ~crashed

\* C11: a gateway initialization failure (missing configuration, or the
\* initialization throwing) leaves authError set and loading false with the
\* configuration-error screen selected, never Login or Dashboard; it is no
\* login failure (loginError stays null and a login failure sets no
\* authError); and no later step changes anything.
C11_ConfigErrorIsTerminal ==
  /\ [](InitializationFailed =>
          /\ authError # NULL /\ ~loading /\ user = NULL
          /\ AppRender = "ConfigError"
          /\ loginError = NULL)
  /\ [](loginError # NULL => authError = NULL /\ AppRender = "Login")
  /\ [][InitializationFailed => UNCHANGED vars]_vars

\* the initialization threw and the catch block ran
C11_Witness ==
  /\ InitializationFailed
  /\ authError = "Failed to initialize Firebase. Please check your configuration."

\* ---------------------------------------------------------------- C12
\* The filter as a function of the list and the search term: a shown
\* Dashboard holding any list of up to FilterMaxLen records, whose search
\* box is then edited.
FilterMaxLen == 2

Paused == <<"p", "a", "u", "s", "e", "d">>
FilterRecords ==
  {LicA1,
   [id |-> KeyA, status |-> Paused, hwid |-> <<"X", "b">>],
   [id |-> <<"k", "B">>, status |-> Active, hwid |-> <<"c">>],
   [id |-> <<"C", "x">>, status |-> Paused, hwid |-> <<>>]}

RECURSIVE SeqsUpTo(_, _)
SeqsUpTo(S, n) ==
  IF n = 0 THEN {<<>>}
  ELSE LET shorter == SeqsUpTo(S, n - 1) IN
         shorter \cup {Append(q, x) : q \in shorter, x \in S}

FilterLists == SeqsUpTo(FilterRecords, FilterMaxLen)

FilterTerms ==
  {<<>>, <<"k">>, <<"A">>, <<"X">>, <<"a", "C">>, <<"B">>, <<"x", "b">>,
   <<"e", "d">>, <<"K", "A">>, <<"b", "c">>}

\* a Dashboard showing the list L, fetched by its mount fetch
FilterInit ==
  /\ user = "admin" /\ loading = FALSE /\ isAuthReady = TRUE
  /\ authError = NULL /\ appPhase = "subscribed"
  /\ signInPending = FALSE /\ signOutPending = FALSE
  /\ loginError = NULL
  /\ \E L \in FilterLists :
       licenses = Arr(L) /\ latestOkData = Arr(L)
  /\ dLoading = FALSE /\ error = NULL
  /\ showModal = FALSE /\ modalType = NULL /\ modalData = <<>>
  /\ refresh = FALSE /\ searchTerm = <<>> /\ depsRefresh = FALSE
  /\ days = InitialDays
  /\ listInFlight = {} /\ nFetches = 1
  /\ actInFlight = {} /\ nActions = 0
  /\ crashed = FALSE /\ uncaught = FALSE
  /\ latestOkSeq = 1
  /\ failedSinceInvoke = FALSE
  /\ now = 0

FilterNext == \E t \in FilterTerms : SetSearchTerm(t)

FilterSpec == FilterInit /\ [][FilterNext]_vars

\* two characters are the same letter, whatever their case
SameLetter(a, b) ==
  a = b \/ \E i \in 1..Len(Upper) : {a, b} = {Upper[i], Lower[i]}

\* s contains t case-insensitively
ContainsIgnoringCase(s, t) ==
  \E i \in 0..(Len(s) - Len(t)) :
    \A j \in 1..Len(t) : SameLetter(s[i + j], t[j])

\* the record's id, hwid (when present) or status contains t
Wanted(license, t) ==
  \/ ContainsIgnoringCase(license.id, t)
  \/ (license.hwid # <<>> /\ ContainsIgnoringCase(license.hwid, t))
  \/ ContainsIgnoringCase(license.status, t)

\* the subsequence of L, in L's order, of the wanted records
WantedSubsequence(L, t) ==
  LET idx == {i \in 1..Len(L) : Wanted(L[i], t)}
      kth(k) == CHOOSE i \in idx : Cardinality({j \in idx : j < i}) = k - 1
  IN [k \in 1..Cardinality(idx) |-> L[kth(k)]]

\* C12: the filtered view is exactly the subsequence of the list, in the
\* list's order, of the records whose id, hwid (when present) or status
\* contains the search term case-insensitively; with the empty search term
\* it is the list itself.
C12_FilterIsWantedSubsequence ==
  /\ filteredLicenses = WantedSubsequence(licenses.v, searchTerm)
  /\ (searchTerm = <<>> => filteredLicenses = licenses.v)

\* an upper-case term keeps the second of two records, by its hwid only
C12_Witness ==
  /\ searchTerm = <<"B">> /\ Len(licenses.v) = 2
  /\ Len(filteredLicenses) = 1 /\ filteredLicenses[1] = licenses.v[2]
  /\ filteredLicenses[1].hwid = <<"X", "b">>

\* ------------------------------------------------- formatDate, getDuration
\* 1000 * 60 * 60 * 24 (line 275)
DayMs == 86400000

\* An expire_time as the backend may serialize it.  kind is
\*   "absent"       null or undefined
\*   "empty"        the string ""
\*   "iso"          a string Date parses, to the time ms
\*   "garbage"      a string Date does not parse
\*   "timestamp"    an object whose toDate() returns the Date of time ms
\*   "plainObject"  an object without toDate (a timestamp sent as JSON)
\*   "toDateThrows" an object whose toDate() throws
Ts(kind, ms) == [kind |-> kind, ms |-> ms]

\* !timestamp (lines 252, 267)
Falsy(ts) == ts.kind \in {"absent", "empty"}

\* timestamp.toDate is truthy (lines 255, 270)
HasToDate(ts) == ts.kind \in {"timestamp", "toDateThrows"}

\* a Date: its time value is a number of milliseconds, or NaN
ValidDate(ms) == [valid |-> TRUE, ms |-> ms]
InvalidDate == [valid |-> FALSE, ms |-> 0]

\* new Date(timestamp): only a parsable string gives a valid Date
NewDate(ts) == IF ts.kind = "iso" THEN ValidDate(ts.ms) ELSE InvalidDate

\* timestamp.toDate(), where it returns
toDate(ts) == ValidDate(ts.ms)

\* Math.ceil(a / b) for integers a and b > 0
MathCeilDiv(a, b) == -((-a) \div b)

\* what formatDate / getDuration return
NA == [kind |-> "N/A", n |-> 0]
InvalidDateText == [kind |-> "Invalid Date", n |-> 0]
Localized(ms) == [kind |-> "localized", n |-> ms]
DaysText(n) == [kind |-> "days", n |-> n]
Thrown == [kind |-> "throws", n |-> 0]

\* the statement of formatDate / getDuration that throws, if any
dateThrow(ts) ==
  IF ts.kind = "toDateThrows" THEN Throw("toDate", "toDate failed")
  ELSE NoThrow

\* formatDate with timestamp.toDate() called before the try block
formatDateTry_ToDateOutside == {"new Date", "toLocaleString"}

\* the statements of formatDate inside its try block (lines 253-260)
formatDateTry == {"toDate", "new Date", "toLocaleString"}

\* Date.prototype.toLocaleString: "Invalid Date" for a NaN time value
toLocaleString(date) ==
  IF date.valid THEN Localized(date.ms) ELSE InvalidDateText

\* formatDate (lines 251-264)
formatDate(ts) ==
  IF Falsy(ts) THEN NA
  ELSE IF Escapes(dateThrow(ts), formatDateTry) THEN Thrown
  ELSE IF Caught(dateThrow(ts), formatDateTry) THEN InvalidDateText
  ELSE IF HasToDate(ts) THEN toLocaleString(toDate(ts))
  ELSE toLocaleString(NewDate(ts))

\* the statements of getDuration inside its try block (lines 268-277)
getDurationTry == {"toDate", "new Date", "getTime"}

\* getDuration rounding with Math.floor
getDuration_Floor(ts, clock) ==
  IF Falsy(ts) THEN NA
  ELSE IF Escapes(dateThrow(ts), getDurationTry) THEN Thrown
  ELSE IF Caught(dateThrow(ts), getDurationTry) THEN NA
  ELSE LET expireTime == IF HasToDate(ts) THEN toDate(ts) ELSE NewDate(ts)
       IN IF ~expireTime.valid THEN DaysText(0)
          ELSE LET diffDays == (expireTime.ms - clock) \div DayMs
               IN DaysText(IF diffDays > 0 THEN diffDays ELSE 0)

\* getDuration (lines 266-280) when `new Date()` yields the time clock.
\* An invalid Date throws nothing: its diffTime is NaN, Math.ceil(NaN) is
\* NaN and `NaN > 0` is false, so the result is "0 days".
getDuration(ts, clock) ==
  IF Falsy(ts) THEN NA
  ELSE IF Escapes(dateThrow(ts), getDurationTry) THEN Thrown
  ELSE IF Caught(dateThrow(ts), getDurationTry) THEN NA
  ELSE LET expireTime == IF HasToDate(ts) THEN toDate(ts) ELSE NewDate(ts)
       IN IF ~expireTime.valid THEN DaysText(0)
          ELSE LET diffDays == MathCeilDiv(expireTime.ms - clock, DayMs)
               IN DaysText(IF diffDays > 0 THEN diffDays ELSE 0)

\* ------------------------------------------------------------- DateSpec
\* A shown Dashboard holding one record with any expire_time, while the
\* clock advances.
MaxClockDays == 4

ClockOffsets == {0, 1, DayMs \div 2, DayMs - 1}
TimePoints == {d * DayMs + o : d \in 0..MaxClockDays, o \in ClockOffsets}

ExpireTimes ==
  {Ts("absent", 0), Ts("empty", 0), Ts("garbage", 0), Ts("plainObject", 0),
   Ts("toDateThrows", 0)}
    \cup {Ts("iso", d * DayMs + o) : d \in 0..2, o \in {0, 1}}
    \cup {Ts("timestamp", DayMs + DayMs \div 2)}

DateInit ==
  /\ user = "admin" /\ loading = FALSE /\ isAuthReady = TRUE
  /\ authError = NULL /\ appPhase = "subscribed"
  /\ signInPending = FALSE /\ signOutPending = FALSE
  /\ loginError = NULL
  /\ \E ts \in ExpireTimes :
       LET L == <<[id |-> KeyA, status |-> Active, hwid |-> <<>>,
                   expire_time |-> ts]>>
       IN licenses = Arr(L) /\ latestOkData = Arr(L)
  /\ dLoading = FALSE /\ error = NULL
  /\ showModal = FALSE /\ modalType = NULL /\ modalData = <<>>
  /\ refresh = FALSE /\ searchTerm = <<>> /\ depsRefresh = FALSE
  /\ days = InitialDays
  /\ listInFlight = {} /\ nFetches = 1
  /\ actInFlight = {} /\ nActions = 0
  /\ crashed = FALSE /\ uncaught = FALSE
  /\ latestOkSeq = 1
  /\ failedSinceInvoke = FALSE
  /\ now = 0

\* time passes
Tick(t) ==
  /\ t > now
  /\ now' = t
  /\ UNCHANGED <<appVars, gatewayVars, loginError, dashVars, netVars,
                 crashed, uncaught, histVars>>

DateNext == \E t \in TimePoints : Tick(t)

DateSpec == DateInit /\ [][DateNext]_vars

\* the expire_time values of the rendered cards (lines 343-344)
RenderedExpireTimes == {l.expire_time : l \in RenderedLicenses}

\* an expire_time that denotes a date
ValidExpiry(ts) == ts.kind \in {"iso", "timestamp"}

\* the time an expire_time that denotes a date denotes
Expiry(ts) == ts.ms

\* the least integer k with d <= k days
CeilingDays(d) ==
  CHOOSE k \in -(MaxClockDays + 2)..(MaxClockDays + 2) :
    (k - 1) * DayMs < d /\ d <= k * DayMs

\* C13: for a valid expire_time getDuration yields
\* ceil((expiry - now) / 1 day) floored at 0: it is never negative, it is 0
\* for every record that has already expired, and it does not increase as
\* the current time advances with the expiry fixed.
C13_DurationIsCeilFlooredAtZero ==
  /\ [](\A ts \in RenderedExpireTimes : ValidExpiry(ts) =>
          LET r == getDuration(ts, now)
              c == CeilingDays(Expiry(ts) - now)
          IN /\ r = DaysText(IF c > 0 THEN c ELSE 0)
             /\ r.n >= 0
             /\ (Expiry(ts) <= now => r.n = 0)
             /\ getDuration(ts, now) = r)
  /\ [][\A ts \in RenderedExpireTimes : ValidExpiry(ts) /\ now' > now =>
          getDuration(ts, now').n <= getDuration(ts, now).n]_vars

\* an expiry 1 ms into its third day, seen half a day after the start:
\* 1.5 days and 1 ms remain, shown as 2 days
C13_Witness ==
  /\ Ts("iso", 2 * DayMs + 1) \in RenderedExpireTimes
  /\ now = DayMs \div 2
  /\ getDuration(Ts("iso", 2 * DayMs + 1), now) = DaysText(2)

\* C14: getDuration returns "N/A" whenever expire_time is absent or invalid
\* (null, undefined, empty, or a value that does not parse to a date), and a
\* day count only for a valid expiry.
C14_DurationNAIffNotValid ==
  \A ts \in RenderedExpireTimes :
    (getDuration(ts, now) = NA) <=> ~ValidExpiry(ts)

\* an expire_time formatDate has no date for
InvalidExpiry(ts) == ts.kind \in {"garbage", "plainObject", "toDateThrows"}

\* C15: formatDate returns "N/A" for an absent expire_time and, for every
\* invalid value (an unparsable string, a timestamp object whose toDate
\* fails), returns an error placeholder string; it never throws.
C15_FormatDateNeverThrows ==
  \A ts \in RenderedExpireTimes :
    /\ formatDate(ts) # Thrown
    /\ (Falsy(ts) => formatDate(ts) = NA)
    /\ (InvalidExpiry(ts) => formatDate(ts) = InvalidDateText)
    /\ (ValidExpiry(ts) => formatDate(ts) = Localized(Expiry(ts)))

\* the card of a record whose toDate() throws is rendered
C15_Witness ==
  /\ Ts("toDateThrows", 0) \in RenderedExpireTimes
  /\ formatDate(Ts("toDateThrows", 0)) = InvalidDateText
  /\ now > 0

\* ------------------------------------------------------------ requests
\* the `days` member of a POST /create request's body
BodyDays(req) == req.body[1]

\* C16: every POST /create request the client issues carries a body {days}
\* in which days is an integer with days >= 1, whatever the user put in the
\* Days Valid field before submitting.
C16_CreateBodyDaysIsPositiveInteger ==
  \A req \in actInFlight : req.action = "create" =>
    /\ Len(req.body) = 1
    /\ BodyDays(req).t = "number"
    /\ valueAsNumber(BodyDays(req).v) >= 1

\* --------------------------------------------------------------- modal
\* the open modal of a Dashboard instance is closed by this step
ModalCloses ==
  /\ DashboardMounted /\ DashboardMounted'
  /\ showModal /\ ~showModal'

\* the action the open modal hosts succeeds in this step: "create" for the
\* create modal, "delete" for the delete modal
HostedActionSucceeds ==
  \E req \in actInFlight : req.action = modalType /\ ActionSucceeds(req)

\* C17: a modal is closed only by the user dismissing it or by the success
\* of the action it hosts; the completion of any other action leaves it
\* open.
C17_ModalClosedOnlyByDismissOrOwnSuccess ==
  [][ModalCloses => closeModal \/ HostedActionSucceeds]_vars

\* C18: in every state of the Dashboard `licenses` is a sequence of records
\* on which the filter can be evaluated, whatever the body of a list
\* response with a success status.
C18_LicensesIsSequence ==
  DashboardMounted => licenses.t = "array"

\* ------------------------------------------------------------- loading
\* Every list request is eventually answered or fails: fetch settles its
\* promise, and the continuation of fetchLicenses then runs.
FairSpec ==
  /\ Spec
  /\ WF_vars(\E seq \in listInFlight, resp \in ListResponses :
               ListResponse(seq, resp))

\* the first list fetch of the Dashboard instance is answered in this step
FirstFetchSettles(resp) ==
  /\ DashboardMounted /\ dLoading
  /\ \E seq \in listInFlight : ListResponse(seq, resp)

\* C19: after a Dashboard instance mounts, its first list fetch eventually
\* resolves and `loading` becomes false whether the fetch succeeded or
\* failed (on failure the error banner is set and the list is left empty);
\* once false, `loading` never becomes true again for that instance.
C19_LoadingResolvesOnce ==
  /\ (DashboardMounted /\ dLoading) ~> (~DashboardMounted \/ ~dLoading)
  /\ [][\A resp \in ListResponses : FirstFetchSettles(resp) =>
          /\ ~dLoading'
          /\ (fetchLicensesThrow(resp).site # "none" =>
                error' # NULL /\ licenses' = Arr(<<>>))]_vars
  /\ [][DashboardMounted /\ DashboardMounted' /\ ~dLoading => ~dLoading']_vars

\* a refetch is in flight and the Dashboard is not back on its Loading
\* screen
C19_Witness ==
  /\ DashboardMounted /\ ~dLoading
  /\ listInFlight # {} /\ nFetches >= 2

====
